---- MODULE Spec2Model ----
(***************************************************************************)
(* Vite-React-Deploy: the counter widget of src/App.jsx and the two-job    *)
(* GitHub Actions workflow (.github/workflows/deploy.yml) that the README  *)
(* gives in full.                                                          *)
(*                                                                         *)
(* The widget is modelled at the level of React's useState hook: a click   *)
(* enqueues an update, a render processes the queue and commits the        *)
(* button text.  The workflow is modelled at the level of jobs and steps   *)
(* of each workflow run, the artifact store, the token permission setting  *)
(* and the gh-pages branch.                                                *)
(***************************************************************************)
EXTENDS Integers, Sequences, FiniteSets, TLC

VARIABLES
    \* ---- src/App.jsx ----
    count,      \* the value useState returned at the last render
    queue,      \* updates enqueued by setCount and not yet rendered
    clicks,     \* click activations handled since the page was loaded
    batch,      \* number of updates the last render processed
    loads,      \* page loads so far (the first load included)
    discarded,  \* the count that the last reload threw away
    \* ---- deploy.yml ----
    pushRef,    \* pushRef[i]: the ref that commit i was pushed to
    build,      \* build[r]: status of job build of run r
    buildStep,  \* buildStep[r]: the step of job build that runs / failed
    workspace,  \* workspace[r]: the build job's checkout and ./dist
    deploy,     \* deploy[r]: status of job deploy of run r
    deployStep, \* deployStep[r]: the step of job deploy that runs / failed
    deployDist, \* deployDist[r]: ./dist of the deploy job
    prev,       \* prev[r]: the job whose failure the last re-run of r took up
    artifacts,  \* the uploaded artifacts
    ghPages,    \* the commits of branch gh-pages, oldest first
    writePerm   \* "Read and write permissions" is selected

appVars == <<count, queue, clicks, batch, loads, discarded>>
deployVars == <<pushRef, build, buildStep, workspace, deploy, deployStep,
                deployDist, prev, artifacts, ghPages, writePerm>>
vars == <<count, queue, clicks, batch, loads, discarded, pushRef, build, buildStep,
          workspace, deploy, deployStep, deployDist, prev, artifacts,
          ghPages, writePerm>>

\* ------------------------------------------------------------------ bounds
MaxClicks == 6
MaxPending == 3
MaxLoads == 3
MaxPushes == 2

(***************************************************************************)
(* The counter widget                                                      *)
(***************************************************************************)

InitialCountOne == 0 + 1
\* useState(0)
InitialCount == 0

MountStatePersisted(old) == old
\* A mount of App: useState ignores whatever an earlier page view held.
MountState(old) == InitialCount

UpdaterDecrement(c) == c - 1
\* (count) => count + 1
Updater(c) == c + 1

ApplyStale(u, pending) == u.captured + 1
\* React calls the updater of an update with the latest pending state; the
\* count captured by the handler's closure is shadowed by the parameter.
ApplyUpdate(u, pending) == Updater(pending)

RECURSIVE ProcessQueue(_, _)
\* React's processing of the hook's update queue during a render.
ProcessQueue(q, base) ==
    IF q = <<>> THEN base
    ELSE ProcessQueue(Tail(q), ApplyUpdate(Head(q), base))

\* Count is {count}
ButtonText == <<"Count is ", count>>

AppInit ==
    /\ count = MountState(0)
    /\ queue = <<>>
    /\ clicks = 0
    /\ batch = 0
    /\ loads = 1
    /\ discarded = 0

\* onClick={() => setCount((count) => count + 1)}
Click ==
    /\ clicks < MaxClicks
    /\ Len(queue) < MaxPending
    /\ queue' = Append(queue, [captured |-> count])
    /\ clicks' = clicks + 1
    /\ UNCHANGED <<count, batch, loads, discarded>>
    /\ UNCHANGED deployVars

\* The re-render that setCount scheduled: App runs again, useState returns
\* the processed state and the button text is committed.
Render ==
    /\ queue # <<>>
    /\ count' = ProcessQueue(queue, count)
    /\ batch' = Len(queue)
    /\ queue' = <<>>
    /\ UNCHANGED <<clicks, loads, discarded>>
    /\ UNCHANGED deployVars

\* Reload or navigation: the page view ends and App is mounted afresh.
Reload ==
    /\ loads < MaxLoads
    /\ count' = MountState(count)
    /\ queue' = <<>>
    /\ clicks' = 0
    /\ batch' = 0
    /\ loads' = loads + 1
    /\ discarded' = count
    /\ UNCHANGED deployVars

AppNext == Click \/ Render \/ Reload

(***************************************************************************)
(* The deployment workflow                                                 *)
(***************************************************************************)

Main == "refs/heads/main"
\* Refs a developer can push to; only pushes to main are in on.push.branches.
Refs == {Main, "refs/heads/dev"}
Commits == 1..MaxPushes
None == [kind |-> "none", of |-> 0]

\* on: push: branches: - main
OnPush(ref) == ref \in {Main}

\* The workflow runs: one for each pushed commit that the trigger matches.
Runs == {r \in 1..Len(pushRef) : OnPush(pushRef[r])}

\* The steps of job build, in order.
BuildSteps == <<"checkout", "setup-node", "npm-install", "npm-run-build",
                "upload-artifact">>

\* npm run build: vite writes the production build of the checked-out
\* commit to ./dist.
BuildOutput(sha) == [kind |-> "dist", of |-> sha]

\* upload-artifact: name: production-files
UploadName == "production-files"

\* upload-artifact: path: ./dist
UploadPath(ws) == ws.dist

\* download-artifact: name: production-files
DownloadName == "production-files"

ArtifactsOfAnyRun(r) == artifacts
\* download-artifact@v4 without run-id reads the artifacts of its own run.
ArtifactsVisible(r) == {a \in artifacts : a.run = r}

NeedsCompleted(b) == b \in {"success", "failure"}
NeedsNothing(b) == TRUE
\* needs: build, with no status function in the job's if: the job waits for
\* job build and runs only when build succeeded.
NeedsSatisfied(b) == b = "success"

DeployIfMaster(ref) == ref = "refs/heads/master"
\* if: github.ref == 'refs/heads/main'
DeployIf(ref) == ref = Main

PublishUnchecked(r) == TRUE
\* github_token: ${{ secrets.GITHUB_TOKEN }}: the push to gh-pages is
\* accepted only when the workflow token may write to the repository.
PushAccepted(r) == writePerm

\* The run's conclusion as the Actions tab shows it.
Conclusion(r) ==
    IF build[r] = "failure" \/ deploy[r] = "failure" THEN "failure"
    ELSE IF build[r] = "success" /\ deploy[r] \in {"success", "skipped"}
         THEN "success"
    ELSE IF build[r] = "none" THEN "none"
    ELSE "in_progress"

\* Run r has pushed a commit to gh-pages.
PublishedBy(r) == \E i \in 1..Len(ghPages) : ghPages[i].run = r

DeployInit ==
    /\ pushRef = <<>>
    /\ build = [r \in Commits |-> "none"]
    /\ buildStep = [r \in Commits |-> 0]
    /\ workspace = [r \in Commits |-> [src |-> 0, dist |-> None]]
    /\ deploy = [r \in Commits |-> "none"]
    /\ deployStep = [r \in Commits |-> 0]
    /\ deployDist = [r \in Commits |-> None]
    /\ prev = [r \in Commits |-> "none"]
    /\ artifacts = {}
    /\ ghPages = <<>>
    /\ writePerm \in BOOLEAN

\* git push: the commit gets the next sha; a push that the trigger matches
\* queues a run with both jobs.
Push(ref) ==
    /\ Len(pushRef) < MaxPushes
    /\ pushRef' = Append(pushRef, ref)
    /\ LET r == Len(pushRef) + 1 IN
         IF OnPush(ref)
         THEN /\ build' = [build EXCEPT ![r] = "queued"]
              /\ deploy' = [deploy EXCEPT ![r] = "queued"]
         ELSE UNCHANGED <<build, deploy>>
    /\ UNCHANGED <<buildStep, workspace, deployStep, deployDist, prev,
                   artifacts, ghPages, writePerm>>
    /\ UNCHANGED appVars

\* A runner picks up job build.
StartBuild(r) ==
    /\ r \in Runs
    /\ build[r] = "queued"
    /\ build' = [build EXCEPT ![r] = "in_progress"]
    /\ buildStep' = [buildStep EXCEPT ![r] = 1]
    /\ UNCHANGED <<pushRef, workspace, deploy, deployStep, deployDist, prev,
                   artifacts, ghPages, writePerm>>
    /\ UNCHANGED appVars

\* The running step of job build succeeds.
BuildStepOk(r) ==
    /\ r \in Runs
    /\ build[r] = "in_progress"
    /\ LET step == BuildSteps[buildStep[r]] IN
         /\ workspace' =
              [workspace EXCEPT ![r] =
                 IF step = "checkout" THEN [@ EXCEPT !.src = r]
                 ELSE IF step = "npm-run-build"
                      THEN [@ EXCEPT !.dist = BuildOutput(workspace[r].src)]
                 ELSE @]
         /\ artifacts' =
              IF step = "upload-artifact"
              THEN artifacts \cup {[run |-> r, name |-> UploadName,
                                    content |-> UploadPath(workspace[r])]}
              ELSE artifacts
    /\ IF buildStep[r] = Len(BuildSteps)
       THEN /\ build' = [build EXCEPT ![r] = "success"]
            /\ UNCHANGED buildStep
       ELSE /\ buildStep' = [buildStep EXCEPT ![r] = @ + 1]
            /\ UNCHANGED build
    /\ UNCHANGED <<pushRef, deploy, deployStep, deployDist, prev, ghPages,
                   writePerm>>
    /\ UNCHANGED appVars

\* The running step of job build fails: the job fails at that step and the
\* job that needs it is skipped.
BuildStepFail(r) ==
    /\ r \in Runs
    /\ build[r] = "in_progress"
    /\ build' = [build EXCEPT ![r] = "failure"]
    /\ deploy' = [deploy EXCEPT ![r] =
                    IF @ = "queued" /\ ~NeedsSatisfied("failure")
                    THEN "skipped" ELSE @]
    /\ UNCHANGED <<pushRef, buildStep, workspace, deployStep, deployDist,
                   prev, artifacts, ghPages, writePerm>>
    /\ UNCHANGED appVars

\* Job deploy starts once its needs are satisfied; its if: decides whether
\* it runs or is skipped.
StartDeploy(r) ==
    /\ r \in Runs
    /\ deploy[r] = "queued"
    /\ NeedsSatisfied(build[r])
    /\ IF DeployIf(pushRef[r])
       THEN /\ deploy' = [deploy EXCEPT ![r] = "in_progress"]
            /\ deployStep' = [deployStep EXCEPT ![r] = 1]
       ELSE /\ deploy' = [deploy EXCEPT ![r] = "skipped"]
            /\ UNCHANGED deployStep
    /\ UNCHANGED <<pushRef, build, buildStep, workspace, deployDist, prev,
                   artifacts, ghPages, writePerm>>
    /\ UNCHANGED appVars

\* Step "Download artifact": an artifact of that name is unpacked to ./dist;
\* the step fails when there is none.
DownloadArtifact(r) ==
    /\ r \in Runs
    /\ deploy[r] = "in_progress"
    /\ deployStep[r] = 1
    /\ LET found == {a \in ArtifactsVisible(r) : a.name = DownloadName} IN
         IF found = {}
         THEN /\ deploy' = [deploy EXCEPT ![r] = "failure"]
              /\ UNCHANGED <<deployStep, deployDist>>
         ELSE /\ \E a \in found :
                    deployDist' = [deployDist EXCEPT ![r] = a.content]
              /\ deployStep' = [deployStep EXCEPT ![r] = 2]
              /\ UNCHANGED deploy
    /\ UNCHANGED <<pushRef, build, buildStep, workspace, prev, artifacts,
                   ghPages, writePerm>>
    /\ UNCHANGED appVars

\* Step "Deploy to GitHub Pages": publish_dir ./dist is committed to
\* gh-pages and pushed with the workflow token.
Publish(r) ==
    /\ r \in Runs
    /\ deploy[r] = "in_progress"
    /\ deployStep[r] = 2
    /\ IF PushAccepted(r)
       THEN /\ ghPages' = Append(ghPages,
                                 [run |-> r, content |-> deployDist[r]])
            /\ deploy' = [deploy EXCEPT ![r] = "success"]
       ELSE /\ deploy' = [deploy EXCEPT ![r] = "failure"]
            /\ UNCHANGED ghPages
    /\ UNCHANGED <<pushRef, build, buildStep, workspace, deployStep,
                   deployDist, prev, artifacts, writePerm>>
    /\ UNCHANGED appVars

\* Settings > Actions > General > Workflow permissions > Read and write.
GrantWrite ==
    /\ ~writePerm
    /\ writePerm' = TRUE
    /\ UNCHANGED <<pushRef, build, buildStep, workspace, deploy, deployStep,
                   deployDist, prev, artifacts, ghPages>>
    /\ UNCHANGED appVars

\* Actions tab > the failed run > Re-run failed jobs: the failed job and
\* the jobs that depend on it are queued again in a new attempt.
RerunFailedJobs(r) ==
    /\ r \in Runs
    /\ Conclusion(r) = "failure"
    /\ IF build[r] = "failure"
       THEN /\ build' = [build EXCEPT ![r] = "queued"]
            /\ buildStep' = [buildStep EXCEPT ![r] = 0]
            /\ workspace' = [workspace EXCEPT
                               ![r] = [src |-> 0, dist |-> None]]
            /\ prev' = [prev EXCEPT ![r] = "build"]
       ELSE /\ prev' = [prev EXCEPT ![r] = "deploy"]
            /\ UNCHANGED <<build, buildStep, workspace>>
    /\ deploy' = [deploy EXCEPT ![r] = "queued"]
    /\ deployStep' = [deployStep EXCEPT ![r] = 0]
    /\ deployDist' = [deployDist EXCEPT ![r] = None]
    /\ UNCHANGED <<pushRef, artifacts, ghPages, writePerm>>
    /\ UNCHANGED appVars

\* What the runners do without anyone acting.
RunnerStep(r) ==
    \/ StartBuild(r)
    \/ BuildStepOk(r)
    \/ BuildStepFail(r)
    \/ StartDeploy(r)
    \/ DownloadArtifact(r)
    \/ Publish(r)

DeployNext ==
    \/ \E ref \in Refs : Push(ref)
    \/ \E r \in Commits : RunnerStep(r)
    \/ GrantWrite
    \/ \E r \in Commits : RerunFailedJobs(r)

(***************************************************************************)
(* Specifications                                                          *)
(***************************************************************************)

Init == AppInit /\ DeployInit

\* A page view of the widget.
AppSpec == Init /\ [][AppNext]_vars

\* The repository with its workflow.
DeploySpec == Init /\ [][DeployNext]_vars

\* A hosted runner takes every queued job whose needs are satisfied and
\* runs every step to its end (to success or to failure).
DeployFairSpec == DeploySpec /\ \A r \in Commits : WF_vars(RunnerStep(r))

(***************************************************************************)
(* Properties of the counter widget (checked under AppSpec)                *)
(***************************************************************************)

\* C1: after n click activations since the page was loaded, once they are
\* rendered, the button reads "Count is n".
DisplayedEqualsClicks ==
    queue = <<>> => ButtonText = <<"Count is ", clicks>>

FourClicksShown ==
    clicks = 4 /\ queue = <<>> /\ ButtonText = <<"Count is ", 4>>

\* C2: the displayed value is always a non-negative integer, and no step
\* other than a reload makes it smaller.
CounterNatAndMonotone ==
    /\ [](count \in Nat)
    /\ [][loads' = loads => count' >= count]_vars

CounterGrew == loads = 1 /\ count = 3 /\ batch = 1

\* C3: the counter is 0 after the first load and after every reload,
\* whatever it was before; nothing pending survives the reload either.
ResetOnLoad ==
    /\ count = 0 /\ queue = <<>>
    /\ [][loads' # loads => count' = 0 /\ queue' = <<>>]_vars

ReloadDiscardedFour == loads = 2 /\ discarded = 4 /\ count = 0

\* C10: a render that processes k clicks handled since the last render
\* raises the counter by exactly k.
NoClickLost ==
    [][queue # <<>> /\ queue' = <<>> /\ loads' = loads
          => count' = count + Len(queue)]_vars

ThreeClicksInOneRender == batch = 3 /\ queue = <<>> /\ count = clicks

(***************************************************************************)
(* Properties of the workflow (checked under DeploySpec, the liveness      *)
(* ones under DeployFairSpec)                                              *)
(***************************************************************************)

\* C4: job deploy has started in a run only if the run's ref is
\* refs/heads/main and the run's job build has succeeded.
DeployOnlyAfterBuildOnMain ==
    \A r \in Commits :
        deploy[r] \in {"in_progress", "success", "failure"}
            => pushRef[r] = "refs/heads/main" /\ build[r] = "success"

DeployStarted ==
    \E r \in Commits : deploy[r] = "in_progress" /\ deployStep[r] = 1

\* C5: while job build of a run is failed, job deploy of the run is skipped
\* and the run has put nothing on gh-pages; and the failed build job runs
\* no later step: it stays at the step that failed, with its workspace and
\* artifacts as they are, until someone re-runs the failed jobs, which
\* queues the job again from its first step.
FailedBuildHalts ==
    /\ [](\A r \in Commits :
            build[r] = "failure"
                => deploy[r] = "skipped" /\ ~PublishedBy(r))
    /\ [][\A r \in Commits :
            build[r] = "failure"
                => \/ /\ build'[r] = "failure"
                      /\ buildStep'[r] = buildStep[r]
                      /\ workspace'[r] = workspace[r]
                      /\ {a \in artifacts' : a.run = r}
                           = {a \in artifacts : a.run = r}
                      /\ deploy'[r] = "skipped"
                   \/ /\ build'[r] = "queued"
                      /\ buildStep'[r] = 0
                      /\ prev'[r] = "build"]_vars

NpmRunBuildFailed ==
    \E r \in Commits :
        /\ build[r] = "failure"
        /\ BuildSteps[buildStep[r]] = "npm-run-build"
        /\ ghPages # <<>>

\* C6: a run triggered by a push to main while the token may write, whose
\* deploy job has not failed, eventually either publishes the build of
\* that push's commit to gh-pages or has a failed build, with no one acting.
PushEventuallyPublished ==
    \A r \in Commits :
        (r \in Runs /\ writePerm /\ deploy[r] # "failure")
            ~> \/ \E i \in 1..Len(ghPages) :
                     ghPages[i] = [run |-> r, content |-> BuildOutput(r)]
               \/ build[r] = "failure"

PublishedAtFirstAttempt ==
    \E r \in Commits : PublishedBy(r) /\ prev[r] = "none"

\* C7: a successful build has uploaded its ./dist as the artifact
\* production-files of its run, the deploy job has downloaded exactly that,
\* and every commit on gh-pages holds the build output of the run that
\* published it.
PublishesOwnBuild ==
    /\ \A r \in Commits :
          build[r] = "success"
              => {a \in artifacts : a.run = r}
                   = {[run |-> r, name |-> "production-files",
                       content |-> BuildOutput(r)]}
    /\ \A r \in Commits :
          deployStep[r] = 2 => deployDist[r] = BuildOutput(r)
    /\ \A i \in 1..Len(ghPages) :
          ghPages[i].content = BuildOutput(ghPages[i].run)

TwoRunsPublished == Cardinality(artifacts) = 2 /\ Len(ghPages) = 2

\* C8: a publish step run without write permission fails, which fails the
\* run and leaves gh-pages as it was; and a run whose failed deploy is
\* re-run while the token may write eventually publishes.
NoWritePermFails ==
    /\ [][\A r \in Commits :
            /\ deploy[r] = "in_progress"
            /\ deployStep[r] = 2
            /\ ~writePerm
            /\ deploy'[r] # deploy[r]
            => /\ deploy'[r] = "failure"
               /\ Conclusion(r)' = "failure"
               /\ ghPages' = ghPages]_vars
    /\ \A r \in Commits :
          (/\ prev[r] = "deploy"
           /\ writePerm
           /\ deploy[r] # "failure")
              ~> PublishedBy(r)

PublishedByRerun ==
    \E r \in Commits : prev[r] = "deploy" /\ PublishedBy(r)

\* C9: once every run has finished with success, gh-pages holds the build
\* of the latest push that triggered a run.
LatestPushWins ==
    (Runs # {} /\ \A r \in Runs : deploy[r] = "success")
        => ghPages[Len(ghPages)].content
             = BuildOutput(CHOOSE r \in Runs : \A q \in Runs : q <= r)

====
